---- MODULE Spec2Model ----
(***************************************************************************)
(* Model of the MenstruationTracker prediction path and record store.      *)
(*                                                                         *)
(*   Tracker/ml/model.py          save_model, load_model,                  *)
(*                                predict_cycle_length, predict_with_history*)
(*   Tracker/forecast_service.py  get_user_cycle_data,                     *)
(*                                get_prediction_for_user                  *)
(*   Tracker/models.py            Cycle, Cycle.calculate_cycle_length      *)
(*   Tracker/views.py             home, cycle_create, cycle_update,        *)
(*                                cycle_delete, forecast_view,             *)
(*                                analytics_view                           *)
(*                                                                         *)
(* Units.  Dates are proleptic Gregorian ordinals (date.toordinal()).      *)
(* A raw regressor output is an integer number of hundredths of a day; a   *)
(* returned length is an integer number of tenths of a day (the code       *)
(* rounds to one decimal); a reported confidence is an integer number of   *)
(* hundredths (the code rounds to two decimals); an unrounded confidence   *)
(* is an exact fraction [num, den].  A raised Python exception is an       *)
(* outcome whose exc field names the exception class; exc = "" is a normal *)
(* return.                                                                 *)
(***************************************************************************)
EXTENDS Integers, Sequences, FiniteSets, TLC

VARIABLES
    cycles,       \* Cycle table: primary key -> row, DOMAIN = the stored rows
    next_pk,      \* the Cycle table's autoincrement counter
    daily_logs,   \* DailyLog table: primary key -> row
    next_log_pk,  \* the DailyLog table's autoincrement counter
    artifact,     \* models/cycle_predictor.joblib: exists flag and contents
    call,         \* the last direct call of the Predictor and its outcome
    last          \* the last request handled by a view and its outcome

vars == <<cycles, next_pk, daily_logs, next_log_pk, artifact, call, last>>

store == <<cycles, next_pk, daily_logs, next_log_pk>>

(***************************************************************************)
(* Bounds of the model.                                                    *)
(***************************************************************************)
MaxNames == 2       \* longest persisted feature-name list
MaxHistory == 3     \* longest cycle-length history passed to the Predictor
MaxPk == 3          \* cycles created while forecasts are served
MaxStorePk == 2     \* cycles created while the store is edited freely
MaxLogPk == 2       \* daily logs created
MaxRecorded == 32   \* daily logs of a user in a recorded store

(***************************************************************************)
(* Python values.                                                          *)
(***************************************************************************)
\* None / SQL NULL in an integer or date column (no date or length of the
\* model takes this value).
NULL == -999999

\* A dictionary key that is absent (the "not enough data" dict has no
\* 'cycle_count' key).
MISSING == NULL - 1

Rat(n, d) == [num |-> n, den |-> d]

\* A value of a feature or symptom dictionary: None, or the number num/den,
\* or its square root when root is set (np.std).
NoneV == [none |-> TRUE, num |-> 0, den |-> 1, root |-> FALSE]

Num(n) == [none |-> FALSE, num |-> n, den |-> 1, root |-> FALSE]

Frac(n, d) == [none |-> FALSE, num |-> n, den |-> d, root |-> FALSE]

Root(n, d) == [none |-> FALSE, num |-> n, den |-> d, root |-> TRUE]

\* Python truthiness of such a value: None, False and 0 are falsy.
Truthy(v) == ~v.none /\ v.num # 0

\* A lookup that finds no key.
Get_default(d, key, default) == default

\* dict.get(key, default)
Get(d, key, default) == IF key \in DOMAIN d THEN d[key] ELSE default

RECURSIVE Sum(_)
Sum(s) == IF Len(s) = 0 THEN 0 ELSE Head(s) + Sum(Tail(s))

RECURSIVE SumSq(_)
SumSq(s) == IF Len(s) = 0 THEN 0 ELSE Head(s) * Head(s) + SumSq(Tail(s))

\* The last k elements of s (s[-k:]).
LastK(s, k) == SubSeq(s, Len(s) - k + 1, Len(s))

\* n/d (d > 0) rounded to the nearest integer, ties to the even one: what
\* round() and np.round() do on a value that a double represents exactly.
RoundHalfEven(n, d) ==
    LET q == n \div d
        r == n % d
    IN  IF 2 * r < d THEN q
        ELSE IF 2 * r > d THEN q + 1
        ELSE IF q % 2 = 0 THEN q ELSE q + 1

\* n/d rounded to the nearest integer, ties down.
RoundHalfDown(n, d) ==
    LET q == n \div d
        r == n % d
    IN  IF 2 * r <= d THEN q ELSE q + 1

\* int(x) for x = n/d: truncation toward zero.
Trunc(n, d) == IF n >= 0 THEN n \div d ELSE -((-n) \div d)

SeqsUpTo(S, n) == UNION {[1..k -> S] : k \in 0..n}

(***************************************************************************)
(* Tracker/ml/model.py: the Model Store and the Predictor.                 *)
(***************************************************************************)
\* The keys of the feature dictionary predict_with_history builds.
FeatureKeys ==
    {"prev_cycle_length_1", "prev_cycle_length_2", "prev_cycle_length_3",
     "rolling_mean_3", "rolling_std_3", "age", "cramps", "headache",
     "mood_swings", "fatigue", "bloating", "flow_encoded", "period_length"}

\* The artifact file does not exist.  Of a file that exists, complete tells
\* whether joblib.dump has written all of it.
NoArtifact ==
    [exists |-> FALSE, complete |-> FALSE, model |-> 0, feature_names |-> <<>>,
     version |-> ""]

\* Outcomes of a Predictor function: a raised exception, or a returned
\* (length, confidence) pair together with the input vector handed to the
\* regressor.
Raise(e) == [exc |-> e, length |-> NULL, conf |-> Rat(0, 1), input |-> <<>>]

Return(len10, c, x) == [exc |-> "", length |-> len10, conf |-> c, input |-> x]

\* The outcome of a Predictor function that was not called.
NotCalled == [exc |-> "not called", length |-> NULL, conf |-> Rat(0, 1), input |-> <<>>]

\* A load_model that gives the feature names back in the opposite order.
load_model_reversed(art) ==
    IF ~art.exists
    THEN [exc |-> "FileNotFoundError", model |-> 0, feature_names |-> <<>>]
    ELSE IF ~art.complete
    THEN [exc |-> "EOFError", model |-> 0, feature_names |-> <<>>]
    ELSE [exc |-> "", model |-> art.model,
          feature_names |-> [i \in 1..Len(art.feature_names) |->
                                art.feature_names[Len(art.feature_names) + 1 - i]]]

\* load_model(): FileNotFoundError when the file does not exist, otherwise
\* the stored model and feature-name list.  joblib.load of a file that is
\* not written to its end fails while unpickling (EOFError stands for the
\* exception it raises).
load_model(art) ==
    IF ~art.exists
    THEN [exc |-> "FileNotFoundError", model |-> 0, feature_names |-> <<>>]
    ELSE IF ~art.complete
    THEN [exc |-> "EOFError", model |-> 0, feature_names |-> <<>>]
    ELSE [exc |-> "", model |-> art.model, feature_names |-> art.feature_names]

\* model.predict(features_array)[0].  The regressor is opaque to the code; a
\* stored model is represented by the value (in hundredths) it predicts.
model_predict(model, features) == model

\* A clamp that lost its lower bound.
clamp_upper_only(raw) == IF raw < 4000 THEN raw ELSE 4000

\* max(21, min(40, predicted_length)), in hundredths.
clamp(raw) ==
    LET lo == IF raw < 4000 THEN raw ELSE 4000
    IN  IF lo > 2100 THEN lo ELSE 2100

\* A count of the dictionary's own non-None entries, whatever the names.
available_features_of_dict(features_dict, feature_names) ==
    Cardinality({k \in DOMAIN features_dict : ~features_dict[k].none})

\* sum(1 for name in feature_names if features_dict.get(name) is not None)
available_features(features_dict, feature_names) ==
    Cardinality({i \in 1..Len(feature_names) :
                    ~Get(features_dict, feature_names[i], NoneV).none})

\* predict_cycle_length(features_dict), run against the artifact art.  With
\* an empty feature-name list the division by len(feature_names) raises
\* (a scikit-learn regressor raises ValueError on the empty input first).
predict_cycle_length(features_dict, art) ==
    LET lm == load_model(art)
        feature_names == lm.feature_names
        features ==
            [i \in 1..Len(feature_names) |->
                LET value == Get(features_dict, feature_names[i], Num(0))
                IN  IF value.none THEN Num(0) ELSE value]
        predicted_length == clamp(model_predict(lm.model, features))
    IN  IF lm.exc # "" THEN Raise(lm.exc)
        ELSE IF Len(feature_names) = 0 THEN Raise("ZeroDivisionError")
        ELSE Return(RoundHalfEven(predicted_length, 10),
                    Rat(available_features(features_dict, feature_names),
                        Len(feature_names)),
                    features)

\* A feature dictionary whose lag 3, for a history of two lengths, falls back
\* to the older length instead of the most recent one.
history_features_lag3_oldest(cycle_lengths, user_age, symptoms) ==
    LET n == Len(cycle_lengths)
        sym == IF symptoms.none THEN <<>> ELSE symptoms.d
        last3 == LastK(cycle_lengths, 3)
        std(s) == Root(Len(s) * SumSq(s) - Sum(s) * Sum(s), Len(s) * Len(s))
        prev_1 == IF n >= 1 THEN cycle_lengths[n] ELSE 28
        prev_2 == IF n >= 2 THEN cycle_lengths[n - 1]
                  ELSE IF n = 1 THEN cycle_lengths[1] ELSE 28
        prev_3 == IF n >= 3 THEN cycle_lengths[n - 2]
                  ELSE IF n = 2 THEN cycle_lengths[n - 1]
                  ELSE IF n = 1 THEN cycle_lengths[1] ELSE 28
        rolling_mean == IF n >= 3 THEN Frac(Sum(last3), 3)
                        ELSE IF n = 2 THEN Frac(Sum(cycle_lengths), 2)
                        ELSE IF n = 1 THEN Num(cycle_lengths[1]) ELSE Num(28)
        rolling_std == IF n >= 3 THEN std(last3)
                       ELSE IF n = 2 THEN std(cycle_lengths)
                       ELSE Num(2)
        flag(k) == IF Truthy(Get(sym, k, NoneV)) THEN Num(1) ELSE Num(0)
    IN  [k \in FeatureKeys |->
            CASE k = "prev_cycle_length_1" -> Num(prev_1)
              [] k = "prev_cycle_length_2" -> Num(prev_2)
              [] k = "prev_cycle_length_3" -> Num(prev_3)
              [] k = "rolling_mean_3" -> rolling_mean
              [] k = "rolling_std_3" -> rolling_std
              [] k = "age" -> user_age
              [] k = "flow_encoded" -> Get(sym, k, Num(2))
              [] k = "period_length" -> Get(sym, k, Num(5))
              [] OTHER -> flag(k)]

\* The feature dictionary predict_with_history builds from the history.
history_features(cycle_lengths, user_age, symptoms) ==
    LET n == Len(cycle_lengths)
        sym == IF symptoms.none THEN <<>> ELSE symptoms.d
        last3 == LastK(cycle_lengths, 3)
        std(s) == Root(Len(s) * SumSq(s) - Sum(s) * Sum(s), Len(s) * Len(s))
        prev_1 == IF n >= 1 THEN cycle_lengths[n] ELSE 28
        prev_2 == IF n >= 2 THEN cycle_lengths[n - 1]
                  ELSE IF n = 1 THEN cycle_lengths[1] ELSE 28
        prev_3 == IF n >= 3 THEN cycle_lengths[n - 2]
                  ELSE IF n = 2 THEN cycle_lengths[n]
                  ELSE IF n = 1 THEN cycle_lengths[1] ELSE 28
        rolling_mean == IF n >= 3 THEN Frac(Sum(last3), 3)
                        ELSE IF n = 2 THEN Frac(Sum(cycle_lengths), 2)
                        ELSE IF n = 1 THEN Num(cycle_lengths[1]) ELSE Num(28)
        rolling_std == IF n >= 3 THEN std(last3)
                       ELSE IF n = 2 THEN std(cycle_lengths)
                       ELSE Num(2)
        flag(k) == IF Truthy(Get(sym, k, NoneV)) THEN Num(1) ELSE Num(0)
    IN  [k \in FeatureKeys |->
            CASE k = "prev_cycle_length_1" -> Num(prev_1)
              [] k = "prev_cycle_length_2" -> Num(prev_2)
              [] k = "prev_cycle_length_3" -> Num(prev_3)
              [] k = "rolling_mean_3" -> rolling_mean
              [] k = "rolling_std_3" -> rolling_std
              [] k = "age" -> user_age
              [] k = "flow_encoded" -> Get(sym, k, Num(2))
              [] k = "period_length" -> Get(sym, k, Num(5))
              [] OTHER -> flag(k)]

\* A fallback that gives every history, the empty one too, confidence 0.5.
fallback_prediction_flat(cycle_lengths) ==
    IF Len(cycle_lengths) > 0
    THEN Return(RoundHalfEven(10 * Sum(cycle_lengths), Len(cycle_lengths)),
                Rat(1, 2), <<>>)
    ELSE Return(280, Rat(1, 2), <<>>)

\* A fallback that cuts the mean to one decimal instead of rounding it.
fallback_prediction_truncating(cycle_lengths) ==
    IF Len(cycle_lengths) > 0
    THEN Return((10 * Sum(cycle_lengths)) \div Len(cycle_lengths), Rat(1, 2), <<>>)
    ELSE Return(280, Rat(3, 10), <<>>)

\* The except FileNotFoundError branch of predict_with_history:
\* round(np.mean(cycle_lengths), 1) with confidence 0.5, or (28.0, 0.3).
fallback_prediction(cycle_lengths) ==
    IF Len(cycle_lengths) > 0
    THEN Return(RoundHalfEven(10 * Sum(cycle_lengths), Len(cycle_lengths)),
                Rat(1, 2), <<>>)
    ELSE Return(280, Rat(3, 10), <<>>)

\* predict_with_history(cycle_lengths, user_age, symptoms), run against the
\* artifact art: only FileNotFoundError is caught.
predict_with_history(cycle_lengths, user_age, symptoms, art) ==
    LET features == history_features(cycle_lengths, user_age, symptoms)
        out == predict_cycle_length(features, art)
    IN  IF out.exc = "FileNotFoundError"
        THEN fallback_prediction(cycle_lengths)
        ELSE out

(***************************************************************************)
(* Direct calls of the Model Store and the Predictor (the functions of     *)
(* Tracker/ml/model.py called as a library), with their arguments drawn    *)
(* from small sets.                                                        *)
(***************************************************************************)
\* Regressor outputs, in hundredths: below, on, inside and above the clamp
\* range, all of them values a double represents exactly.
RawOutputs == {1500, 2100, 2825, 2875, 2900, 4000, 4525}

\* Names a persisted feature-name list is made of: two keys of the feature
\* dictionary and a column the dictionary does not have.
NameChoices == {"prev_cycle_length_1", "age", "extra_column"}

NameLists == SeqsUpTo(NameChoices, MaxNames)

\* Feature dictionaries for predict_cycle_length: every subset of the names
\* as keys, every key mapped to None or to a number.
FeatureDictChoices == UNION {[S -> {NoneV, Num(28)}] : S \in SUBSET NameChoices}

LengthChoices == {27, 28, 30}

Histories == SeqsUpTo(LengthChoices, MaxHistory)

\* Histories longer than the window of three lengths the features look at.
LongHistories == {<<30, 27, 28, 30>>, <<27, 27, 30, 28>>}

AgeChoices == {Num(25), Num(40), NoneV}

\* symptoms arguments: None, {}, a partial dict, a dict with a None value.
SymptomChoices ==
    {[none |-> TRUE, d |-> <<>>],
     [none |-> FALSE, d |-> <<>>],
     [none |-> FALSE, d |-> [k \in {"cramps", "flow_encoded"} |->
                                IF k = "cramps" THEN Num(1) ELSE Frac(3, 2)]],
     [none |-> FALSE, d |-> [k \in {"flow_encoded"} |-> NoneV]]}

\* What load_model returned to a direct call; nothing before the call.
NotLoaded == [exc |-> "not called", model |-> 0, feature_names |-> <<>>]

NoCall ==
    [fn |-> "", cycle_lengths |-> <<>>, user_age |-> NoneV,
     symptoms |-> [none |-> TRUE, d |-> <<>>], features_dict |-> <<>>,
     art |-> NoArtifact, out |-> NotCalled, loaded |-> NotLoaded, user |-> 0]

\* save_model(model, feature_names): joblib.dump of the dict to the path.
save_model(model, feature_names) ==
    /\ artifact' = [exists |-> TRUE, complete |-> TRUE, model |-> model,
                    feature_names |-> feature_names, version |-> "1.0"]
    /\ UNCHANGED <<store, call, last>>

\* save_model as the two steps other processes can see: joblib.dump opens
\* the path for writing, which creates or truncates the file, and then
\* writes the pickled dict into it.  The unfinished file carries what its
\* writer is about to complete.
save_model_open(model, feature_names) ==
    /\ artifact' = [exists |-> TRUE, complete |-> FALSE, model |-> model,
                    feature_names |-> feature_names, version |-> "1.0"]
    /\ UNCHANGED <<store, call, last>>

save_model_write ==
    /\ artifact.exists
    /\ ~artifact.complete
    /\ artifact' = [artifact EXCEPT !.complete = TRUE]
    /\ UNCHANGED <<store, call, last>>

\* A direct call of load_model().
call_load_model ==
    /\ call' = [NoCall EXCEPT !.fn = "load_model", !.art = artifact,
                              !.loaded = load_model(artifact)]
    /\ UNCHANGED <<store, artifact, last>>

call_predict_cycle_length(features_dict) ==
    /\ call' = [NoCall EXCEPT
                   !.fn = "predict_cycle_length",
                   !.features_dict = features_dict,
                   !.art = artifact,
                   !.out = predict_cycle_length(features_dict, artifact)]
    /\ UNCHANGED <<store, artifact, last>>

call_predict_with_history(cycle_lengths, user_age, symptoms) ==
    /\ call' = [fn |-> "predict_with_history", cycle_lengths |-> cycle_lengths,
                user_age |-> user_age, symptoms |-> symptoms,
                features_dict |-> history_features(cycle_lengths, user_age, symptoms),
                art |-> artifact,
                out |-> predict_with_history(cycle_lengths, user_age, symptoms, artifact),
                loaded |-> NotLoaded, user |-> 0]
    /\ UNCHANGED <<store, artifact, last>>

(***************************************************************************)
(* Tracker/ml/data_loader.py: the lag and rolling features of the training *)
(* table.  col is the cycle_length column of one user's rows in the order  *)
(* sort_values gives them (the groupby keeps users apart); a NaN is None.  *)
(***************************************************************************)
\* groupby('user_id')['cycle_length'].shift(k), at row i
shift(col, i, k) == IF i - k >= 1 THEN Num(col[i - k]) ELSE NoneV

\* x.rolling(3, min_periods=1).mean().shift(1), at row i
rolling_mean_shifted(col, i) ==
    IF i = 1 THEN NoneV
    ELSE LET w == SubSeq(col, IF i > 3 THEN i - 3 ELSE 1, i - 1)
         IN  Frac(Sum(w), Len(w))

\* x.rolling(3, min_periods=1).std().shift(1), at row i: the sample standard
\* deviation, NaN for a window of one value.
rolling_std_shifted(col, i) ==
    IF i = 1 THEN NoneV
    ELSE LET w == SubSeq(col, IF i > 3 THEN i - 3 ELSE 1, i - 1)
             n == Len(w)
         IN  IF n < 2 THEN NoneV
             ELSE Root(n * SumSq(w) - Sum(w) * Sum(w), n * (n - 1))

\* Series.fillna(default)
fillna(v, default) == IF v.none THEN default ELSE v

LagColumns ==
    {"prev_cycle_length_1", "prev_cycle_length_2", "prev_cycle_length_3",
     "rolling_mean_3", "rolling_std_3"}

\* create_features(df): the rows of the user with their lag and rolling
\* columns.
create_features(col) ==
    [i \in 1..Len(col) |->
        [k \in LagColumns \cup {"cycle_length"} |->
            CASE k = "cycle_length" -> Num(col[i])
              [] k = "prev_cycle_length_1" -> fillna(shift(col, i, 1), Num(28))
              [] k = "prev_cycle_length_2" -> fillna(shift(col, i, 2), Num(28))
              [] k = "prev_cycle_length_3" -> fillna(shift(col, i, 3), Num(28))
              [] k = "rolling_mean_3" -> fillna(rolling_mean_shifted(col, i), Num(28))
              [] k = "rolling_std_3" -> fillna(rolling_std_shifted(col, i), Num(2))]]

\* A direct call of create_features on the rows of one user.
call_create_features(col) ==
    /\ call' = [NoCall EXCEPT !.fn = "create_features", !.cycle_lengths = col,
                              !.features_dict = create_features(col)]
    /\ UNCHANGED <<store, artifact, last>>

(***************************************************************************)
(* Dates.                                                                  *)
(***************************************************************************)
\* datetime.date(y, m, d).toordinal()
ymd2ord(y, m, d) ==
    LET leap == (y % 4 = 0) /\ ((y % 100 # 0) \/ (y % 400 = 0))
        before_year == (y - 1) * 365 + (y - 1) \div 4 - (y - 1) \div 100 + (y - 1) \div 400
        cumulative == <<0, 31, 59, 90, 120, 151, 181, 212, 243, 273, 304, 334>>
        before_month == cumulative[m] + (IF m > 2 /\ leap THEN 1 ELSE 0)
    IN  before_year + before_month + d

Epoch == ymd2ord(2024, 1, 1)

(***************************************************************************)
(* Tracker/forecast_service.py: the Forecast Orchestrator.  The functions  *)
(* read the tables cyc (Cycle) and logs (DailyLog) and the artifact art.   *)
(* An ORDER BY leaves the order of rows with equal keys to the database,   *)
(* so a query is the set of the results it may give.                       *)
(***************************************************************************)
\* A lookup of cycles that does not filter on the user.
UserCycles_of_anyone(user, cyc) == DOMAIN cyc

\* Cycle.objects.filter(user=user)
UserCycles(user, cyc) == {pk \in DOMAIN cyc : cyc[pk].user = user}

\* The first row of the opposite order, order_by('start_date').
EarliestCycles(user, cyc) ==
    {pk \in {q \in DOMAIN cyc : cyc[q].user = user} :
        \A q \in {r \in DOMAIN cyc : cyc[r].user = user} :
            cyc[q].start_date >= cyc[pk].start_date}

\* Cycle.objects.filter(user=user).order_by('-start_date').first(): the
\* rows it may return; empty when the user has no cycle.
LatestCycles(user, cyc) ==
    {pk \in UserCycles(user, cyc) :
        \A q \in UserCycles(user, cyc) : cyc[q].start_date <= cyc[pk].start_date}

\* Cycle.objects.filter(user=user, cycle_length__isnull=False)
CompleteCycles(user, cyc) ==
    {pk \in UserCycles(user, cyc) : cyc[pk].cycle_length # NULL}

\* The orders .order_by('start_date') may give to the rows S.
OrderedByStart(S, cyc) ==
    {o \in [1..Cardinality(S) -> S] :
        /\ \A i, j \in 1..Cardinality(S) : i # j => o[i] # o[j]
        /\ \A i, j \in 1..Cardinality(S) :
              i < j => cyc[o[i]].start_date <= cyc[o[j]].start_date}

\* [c.cycle_length for c in cycles if c.cycle_length]: a length of 0 is
\* falsy and is left out.
RECURSIVE TruthyLengths(_, _)
TruthyLengths(o, cyc) ==
    IF Len(o) = 0 THEN <<>>
    ELSE LET rest == TruthyLengths(Tail(o), cyc)
             len == cyc[Head(o)].cycle_length
         IN  IF len # 0 THEN <<len>> \o rest ELSE rest

\* Number of rows recent_logs is cut to: [:30].
RecentWindow == 30

SymptomNames == {"cramps", "headache", "mood_swings", "fatigue", "bloating"}

\* DailyLog.objects.filter(cycle__user=user)
UserLogs(user, cyc, logs) ==
    {l \in DOMAIN logs : logs[l].cycle \in UserCycles(user, cyc)}

\* .order_by('-date')[:30]: the sets of rows the slice may hold.  The rows
\* sure are in every such slice; of the rows edge, which share the date of
\* the slice's last row, the database picks as many as still fit.
RecentLogs(user, cyc, logs) ==
    LET all == UserLogs(user, cyc, logs)
        sure == {l \in all :
                    Cardinality({m \in all : logs[m].date >= logs[l].date})
                        <= RecentWindow}
        edge == {l \in all \ sure :
                    Cardinality({m \in all : logs[m].date > logs[l].date})
                        < RecentWindow}
    IN  IF Cardinality(all) <= RecentWindow THEN {all}
        ELSE {sure \cup X :
                X \in {Y \in SUBSET edge :
                          Cardinality(Y) = RecentWindow - Cardinality(sure)}}

flow_map(flow) ==
    CASE flow = "none" -> 0
      [] flow = "light" -> 1
      [] flow = "medium" -> 2
      [] flow = "heavy" -> 3
      [] OTHER -> 2

RECURSIVE SumOver(_, _)
SumOver(S, f) ==
    IF S = {} THEN 0
    ELSE LET x == CHOOSE y \in S : TRUE IN f[x] + SumOver(S \ {x}, f)

\* A summary whose flags are set from 30% of the window on.
symptom_summary_from30(user, cyc, logs, recent_logs) ==
    LET total == Cardinality(recent_logs)
        count(k) == Cardinality({l \in recent_logs : logs[l][k]})
        flows == [l \in recent_logs |-> flow_map(logs[l].flow_intensity)]
        completed == CompleteCycles(user, cyc)
        plausible == {pk \in completed :
                        /\ cyc[pk].end_date # NULL
                        /\ cyc[pk].end_date - cyc[pk].start_date >= 1
                        /\ cyc[pk].end_date - cyc[pk].start_date <= 10}
        period == [pk \in plausible |-> cyc[pk].end_date - cyc[pk].start_date]
    IN  [k \in SymptomNames \cup {"flow_encoded", "period_length"} |->
            CASE k = "flow_encoded" ->
                    IF total > 0 THEN Frac(SumOver(recent_logs, flows), total) ELSE Num(2)
              [] k = "period_length" ->
                    IF plausible # {}
                    THEN Frac(SumOver(plausible, period), Cardinality(plausible))
                    ELSE Num(5)
              [] OTHER ->
                    IF total > 0 /\ 10 * count(k) >= 3 * total THEN Num(1) ELSE Num(0)]

\* The symptoms dict of get_user_cycle_data, for the window recent_logs.
symptom_summary(user, cyc, logs, recent_logs) ==
    LET total == Cardinality(recent_logs)
        count(k) == Cardinality({l \in recent_logs : logs[l][k]})
        flows == [l \in recent_logs |-> flow_map(logs[l].flow_intensity)]
        completed == CompleteCycles(user, cyc)
        plausible == {pk \in completed :
                        /\ cyc[pk].end_date # NULL
                        /\ cyc[pk].end_date - cyc[pk].start_date >= 1
                        /\ cyc[pk].end_date - cyc[pk].start_date <= 10}
        period == [pk \in plausible |-> cyc[pk].end_date - cyc[pk].start_date]
    IN  [k \in SymptomNames \cup {"flow_encoded", "period_length"} |->
            CASE k = "flow_encoded" ->
                    IF total > 0 THEN Frac(SumOver(recent_logs, flows), total) ELSE Num(2)
              [] k = "period_length" ->
                    IF plausible # {}
                    THEN Frac(SumOver(plausible, period), Cardinality(plausible))
                    ELSE Num(5)
              [] OTHER ->
                    \* symptom_counts[k] > total * 0.3
                    IF total > 0 /\ 10 * count(k) > 3 * total THEN Num(1) ELSE Num(0)]

\* get_user_cycle_data(user): the (cycle_lengths, symptoms) pairs it may return.
get_user_cycle_data(user, cyc, logs) ==
    {[cycle_lengths |-> TruthyLengths(o, cyc),
      symptoms |-> symptom_summary(user, cyc, logs, w)] :
        o \in OrderedByStart(CompleteCycles(user, cyc), cyc),
        w \in RecentLogs(user, cyc, logs)}

\* A direct call of get_user_cycle_data(user).
call_get_user_cycle_data(user) ==
    /\ \E data \in get_user_cycle_data(user, cycles, daily_logs) :
          call' = [NoCall EXCEPT !.fn = "get_user_cycle_data", !.user = user,
                                 !.cycle_lengths = data.cycle_lengths,
                                 !.symptoms = [none |-> FALSE, d |-> data.symptoms]]
    /\ UNCHANGED <<store, artifact, last>>

\* A sufficiency test that lets the empty history through.
has_enough_data_always(cycle_lengths) == Len(cycle_lengths) >= 0

\* has_enough_data = len(cycle_lengths) >= 1
has_enough_data(cycle_lengths) == Len(cycle_lengths) >= 1

\* The result of a forecast that was not made.
NoForecast ==
    [exc |-> "not called", invoked |-> FALSE, pwh |-> NotCalled, today |-> NULL,
     predicted_length |-> NULL, predicted_date |-> NULL, confidence |-> NULL,
     days_until |-> NULL, has_enough_data |-> FALSE, message |-> "",
     cycle_count |-> MISSING]

\* A dampening that also takes a history of exactly 3 lengths for sparse.
dampen_upto3(confidence, n) ==
    IF n <= 3
    THEN [num |-> 7 * confidence.num, den |-> 10 * confidence.den, damped |-> TRUE]
    ELSE [num |-> confidence.num, den |-> confidence.den, damped |-> FALSE]

\* if len(cycle_lengths) < 3: confidence *= 0.7
dampen(confidence, n) ==
    IF n < 3
    THEN [num |-> 7 * confidence.num, den |-> 10 * confidence.den, damped |-> TRUE]
    ELSE [num |-> confidence.num, den |-> confidence.den, damped |-> FALSE]

\* round(confidence, 2), in hundredths.  A product with the double 0.7 lies
\* below the exact product, so its ties go down; an undampened tie is an
\* exact double and goes to the even neighbour (checked against Python for
\* every fraction of denominator up to 19).
round2(c) ==
    IF c.damped THEN RoundHalfDown(100 * c.num, c.den)
    ELSE RoundHalfEven(100 * c.num, c.den)

confidence_message(c) ==
    IF 10 * c.num >= 7 * c.den THEN "High confidence prediction"
    ELSE IF 2 * c.num >= c.den
         THEN "Moderate confidence - log more cycles for better accuracy"
         ELSE "Low confidence - based on limited data"

\* get_prediction_for_user(user) on the day today: the results it may give.
get_prediction_for_user(user, today, cyc, logs, art) ==
    {LET cycle_lengths == data.cycle_lengths
         n == Len(cycle_lengths)
         out == predict_with_history(cycle_lengths, Num(25),
                                     [none |-> FALSE, d |-> data.symptoms], art)
         predicted_date ==
             IF last_cycle # 0
             THEN cyc[last_cycle].start_date + Trunc(out.length, 10)
             ELSE NULL
         days_until == IF last_cycle # 0 THEN predicted_date - today ELSE NULL
     IN  IF ~has_enough_data(cycle_lengths)
         THEN [NoForecast EXCEPT
                  !.exc = "", !.today = today, !.confidence = 0,
                  !.message = "Log at least one complete cycle to get predictions"]
         ELSE IF out.exc # ""
         THEN [NoForecast EXCEPT
                  !.exc = out.exc, !.invoked = TRUE, !.pwh = out, !.today = today]
         ELSE [exc |-> "", invoked |-> TRUE, pwh |-> out, today |-> today,
               predicted_length |-> out.length,
               predicted_date |-> predicted_date,
               confidence |-> round2(dampen(out.conf, n)),
               days_until |-> days_until,
               has_enough_data |-> TRUE,
               message |-> confidence_message(dampen(out.conf, n)),
               cycle_count |-> n] :
        data \in get_user_cycle_data(user, cyc, logs),
        last_cycle \in IF LatestCycles(user, cyc) = {} THEN {0}
                       ELSE LatestCycles(user, cyc)}

(***************************************************************************)
(* Tracker/models.py and Tracker/views.py: the record store and the        *)
(* request handlers.  A handler runs for the logged-in user; a request     *)
(* that fails get_object_or_404, or whose form is invalid, changes         *)
(* nothing and is not a step.  The free-text notes play no part.           *)
(***************************************************************************)
\* A request that was not made.  exc names the exception a request ended
\* in (a 500 response), fc is the forecast it computed.
NoRequest ==
    [op |-> "", user |-> 0, pk |-> 0, prev |-> 0, exc |-> "", fc |-> NoForecast]

\* Cycle.calculate_cycle_length(): the only place of the repository that
\* assigns a computed cycle_length; Cycle does not override save().
calculate_cycle_length(pk) ==
    /\ pk \in DOMAIN cycles
    /\ cycles[pk].end_date # NULL
    /\ cycles' = [cycles EXCEPT ![pk].cycle_length =
                      cycles[pk].end_date - cycles[pk].start_date]
    /\ last' = [NoRequest EXCEPT !.op = "calculate_cycle_length"]
    /\ UNCHANGED <<next_pk, daily_logs, next_log_pk, artifact, call>>

\* home: reopens a short latest cycle, then renders the forecast.
home(user, today) ==
    \E latest_cycle \in IF LatestCycles(user, cycles) = {} THEN {0}
                        ELSE LatestCycles(user, cycles) :
        LET reopen ==
                /\ latest_cycle # 0
                /\ cycles[latest_cycle].end_date # NULL
                /\ cycles[latest_cycle].cycle_length # NULL
                /\ cycles[latest_cycle].cycle_length # 0
                /\ cycles[latest_cycle].cycle_length < 7
            saved == IF reopen
                     THEN [cycles EXCEPT ![latest_cycle].end_date = NULL,
                                         ![latest_cycle].cycle_length = NULL]
                     ELSE cycles
        IN  /\ cycles' = saved
            /\ \E forecast \in get_prediction_for_user(user, today, saved,
                                                       daily_logs, artifact) :
                  last' = [op |-> "home", user |-> user,
                           pk |-> IF reopen THEN latest_cycle ELSE 0,
                           prev |-> 0, exc |-> forecast.exc, fc |-> forecast]
            /\ UNCHANGED <<next_pk, daily_logs, next_log_pk, artifact, call>>

\* cycle_create, POST with a valid form (start_date, optional end_date).
cycle_create(user, start_date, end_date) ==
    /\ \E previous_cycle \in IF LatestCycles(user, cycles) = {} THEN {0}
                             ELSE LatestCycles(user, cycles) :
          LET close == previous_cycle # 0 /\ cycles[previous_cycle].end_date = NULL
              closed == IF close
                        THEN [cycles EXCEPT ![previous_cycle].end_date = start_date - 1]
                        ELSE cycles
              cycle == [user |-> user, start_date |-> start_date,
                        end_date |-> end_date, cycle_length |-> NULL]
          IN  /\ cycles' = [pk \in DOMAIN cycles \cup {next_pk} |->
                               IF pk = next_pk THEN cycle ELSE closed[pk]]
              /\ last' = [NoRequest EXCEPT !.op = "cycle_create", !.user = user,
                                           !.pk = next_pk,
                                           !.prev = IF close THEN previous_cycle ELSE 0]
    /\ next_pk' = next_pk + 1
    /\ UNCHANGED <<daily_logs, next_log_pk, artifact, call>>

\* cycle_update, POST with a valid form, on a cycle of the user.
cycle_update(user, pk, start_date, end_date) ==
    /\ pk \in UserCycles(user, cycles)
    /\ cycles' = [cycles EXCEPT ![pk].start_date = start_date,
                                ![pk].end_date = end_date]
    /\ last' = [NoRequest EXCEPT !.op = "cycle_update", !.user = user, !.pk = pk]
    /\ UNCHANGED <<next_pk, daily_logs, next_log_pk, artifact, call>>

\* cycle_delete, POST, on a cycle of the user; its daily logs go with it
\* (on_delete=CASCADE).
cycle_delete(user, pk) ==
    /\ pk \in UserCycles(user, cycles)
    /\ cycles' = [q \in DOMAIN cycles \ {pk} |-> cycles[q]]
    /\ daily_logs' = [l \in {x \in DOMAIN daily_logs : daily_logs[x].cycle # pk} |->
                         daily_logs[l]]
    /\ last' = [NoRequest EXCEPT !.op = "cycle_delete", !.user = user, !.pk = pk]
    /\ UNCHANGED <<next_pk, next_log_pk, artifact, call>>

\* A forecast_view that fills in the missing length of the user's closed
\* cycles before it answers.
forecast_view_healing(user, today) ==
    /\ \E forecast \in get_prediction_for_user(user, today, cycles, daily_logs, artifact) :
          last' = [NoRequest EXCEPT !.op = "forecast_view", !.user = user,
                                    !.exc = forecast.exc, !.fc = forecast]
    /\ cycles' = [pk \in DOMAIN cycles |->
                     IF /\ cycles[pk].user = user
                        /\ cycles[pk].end_date # NULL
                        /\ cycles[pk].cycle_length = NULL
                     THEN [cycles[pk] EXCEPT !.cycle_length =
                               cycles[pk].end_date - cycles[pk].start_date]
                     ELSE cycles[pk]]
    /\ UNCHANGED <<next_pk, daily_logs, next_log_pk, artifact, call>>

\* forecast_view: the forecast as JSON.
forecast_view(user, today) ==
    /\ \E forecast \in get_prediction_for_user(user, today, cycles, daily_logs, artifact) :
          last' = [NoRequest EXCEPT !.op = "forecast_view", !.user = user,
                                    !.exc = forecast.exc, !.fc = forecast]
    /\ UNCHANGED <<store, artifact, call>>

\* analytics_view: saves every cycle that has an end date and no length
\* (a save that assigns no field), then renders the forecast.
analytics_view(user, today) ==
    /\ \E forecast \in get_prediction_for_user(user, today, cycles, daily_logs, artifact) :
          last' = [NoRequest EXCEPT !.op = "analytics_view", !.user = user,
                                    !.exc = forecast.exc, !.fc = forecast]
    /\ UNCHANGED <<store, artifact, call>>

\* A table without the unique_together constraint.
DateTaken_unconstrained(cycle_pk, date, but) == FALSE

\* Another DailyLog row of the same cycle has the date: the database's
\* unique_together constraint on (cycle, date) rejects the save.  The form
\* does not check it, having no cycle field.
DateTaken(cycle_pk, date, but) ==
    \E l \in DOMAIN daily_logs \ {but} :
        daily_logs[l].cycle = cycle_pk /\ daily_logs[l].date = date

\* daily_log_create, POST with a valid form, on a cycle of the user; log is
\* the form's row (date, flow_intensity and the five symptom flags).
daily_log_create(user, cycle_pk, log) ==
    /\ cycle_pk \in UserCycles(user, cycles)
    /\ IF DateTaken(cycle_pk, log.date, 0)
       THEN /\ last' = [NoRequest EXCEPT !.op = "daily_log_create", !.user = user,
                                         !.exc = "IntegrityError"]
            /\ UNCHANGED <<daily_logs, next_log_pk>>
       ELSE /\ daily_logs' =
                  [l \in DOMAIN daily_logs \cup {next_log_pk} |->
                      IF l = next_log_pk
                      THEN [cycle |-> cycle_pk, date |-> log.date,
                            flow_intensity |-> log.flow_intensity,
                            cramps |-> log.cramps, headache |-> log.headache,
                            mood_swings |-> log.mood_swings,
                            fatigue |-> log.fatigue, bloating |-> log.bloating]
                      ELSE daily_logs[l]]
            /\ next_log_pk' = next_log_pk + 1
            /\ last' = [NoRequest EXCEPT !.op = "daily_log_create", !.user = user,
                                         !.pk = next_log_pk]
    /\ UNCHANGED <<cycles, next_pk, artifact, call>>

\* daily_log_update, POST with a valid form, on a log of a cycle of the user.
daily_log_update(user, cycle_pk, log_pk, log) ==
    /\ cycle_pk \in UserCycles(user, cycles)
    /\ log_pk \in DOMAIN daily_logs
    /\ daily_logs[log_pk].cycle = cycle_pk
    /\ IF DateTaken(cycle_pk, log.date, log_pk)
       THEN /\ last' = [NoRequest EXCEPT !.op = "daily_log_update", !.user = user,
                                         !.pk = log_pk, !.exc = "IntegrityError"]
            /\ UNCHANGED daily_logs
       ELSE /\ daily_logs' =
                  [daily_logs EXCEPT ![log_pk] =
                      [cycle |-> cycle_pk, date |-> log.date,
                       flow_intensity |-> log.flow_intensity,
                       cramps |-> log.cramps, headache |-> log.headache,
                       mood_swings |-> log.mood_swings,
                       fatigue |-> log.fatigue, bloating |-> log.bloating]]
            /\ last' = [NoRequest EXCEPT !.op = "daily_log_update", !.user = user,
                                         !.pk = log_pk]
    /\ UNCHANGED <<cycles, next_pk, next_log_pk, artifact, call>>

\* daily_log_delete, POST, on a log of a cycle of the user.
daily_log_delete(user, cycle_pk, log_pk) ==
    /\ cycle_pk \in UserCycles(user, cycles)
    /\ log_pk \in DOMAIN daily_logs
    /\ daily_logs[log_pk].cycle = cycle_pk
    /\ daily_logs' = [l \in DOMAIN daily_logs \ {log_pk} |-> daily_logs[l]]
    /\ last' = [NoRequest EXCEPT !.op = "daily_log_delete", !.user = user,
                                 !.pk = log_pk]
    /\ UNCHANGED <<cycles, next_pk, next_log_pk, artifact, call>>

(***************************************************************************)
(* Specifications.                                                         *)
(***************************************************************************)
Init ==
    /\ cycles = <<>>
    /\ next_pk = 1
    /\ daily_logs = <<>>
    /\ next_log_pk = 1
    /\ artifact = NoArtifact
    /\ call = NoCall
    /\ last = NoRequest

\* The Predictor as a library: the model is trained any number of times and
\* then one Predictor function is called.
Train == call = NoCall /\ \E m \in RawOutputs, names \in NameLists : save_model(m, names)

PredictCycleLength ==
    call = NoCall /\ \E d \in FeatureDictChoices : call_predict_cycle_length(d)

PredictWithHistory ==
    /\ call = NoCall
    /\ \E h \in Histories \cup LongHistories, age \in AgeChoices, sym \in SymptomChoices :
          call_predict_with_history(h, age, sym)

LoadModel == call = NoCall /\ call_load_model

CreateFeatures ==
    /\ call = NoCall
    /\ \E col \in Histories \cup LongHistories : call_create_features(col)

PredictNext ==
    \/ Train
    \/ PredictCycleLength
    \/ PredictWithHistory
    \/ LoadModel
    \/ CreateFeatures

SpecPredict == Init /\ [][PredictNext]_vars

\* The Predictor read by one process while another process trains: the
\* steps of a save_model interleave with the calls of the reader.
SaveOpen ==
    /\ call = NoCall
    /\ artifact.exists => artifact.complete
    /\ \E m \in RawOutputs, names \in NameLists : save_model_open(m, names)

SaveWrite == call = NoCall /\ save_model_write

ConcurrentNext ==
    \/ SaveOpen
    \/ SaveWrite
    \/ LoadModel
    \/ PredictCycleLength
    \/ PredictWithHistory

SpecConcurrent == Init /\ [][ConcurrentNext]_vars

\* The application.  Its requests come from the users Users, with the form
\* dates StartDates and EndDates, on the days Todays.
Users == {1}

StartDates == {Epoch, Epoch + 9}

EndDates == {NULL, Epoch + 5, Epoch + 9}

Todays == {Epoch + 10, Epoch + 60}

\* The day the requests are made on, where one day is enough.
RecordedToday == Epoch + 10

CalculateCycleLength == \E pk \in DOMAIN cycles : calculate_cycle_length(pk)

Home == \E u \in Users, today \in Todays : home(u, today)

CycleUpdate ==
    \E u \in Users, pk \in DOMAIN cycles, s \in StartDates, e \in EndDates :
        cycle_update(u, pk, s, e)

CycleDelete == \E u \in Users, pk \in DOMAIN cycles : cycle_delete(u, pk)

ForecastView == \E u \in Users, today \in Todays : forecast_view(u, today)

AnalyticsView == \E u \in Users, today \in Todays : analytics_view(u, today)

\* The record store under every request that writes it; no model is trained.
StoreCycleCreate ==
    /\ next_pk <= MaxStorePk
    /\ \E u \in Users, s \in StartDates, e \in EndDates : cycle_create(u, s, e)

StoreNext ==
    \/ CalculateCycleLength
    \/ Home
    \/ StoreCycleCreate
    \/ CycleUpdate
    \/ CycleDelete
    \/ AnalyticsView

SpecStore == Init /\ [][StoreNext]_vars

\* Forecasts: a model is trained out of band, cycles are logged and
\* completed, forecasts are requested; and the Predictor is called directly
\* before any request is served.
ServedModels == {2900}

ServedEndDates == {NULL, Epoch + 9}

ServedNameLists == {<<>>, <<"age">>, <<"extra_column">>, <<"age", "extra_column">>}

TrainServed ==
    /\ call = NoCall
    /\ last = NoRequest
    /\ \E m \in ServedModels, names \in ServedNameLists : save_model(m, names)

CycleCreate ==
    /\ call = NoCall
    /\ next_pk <= MaxPk
    /\ \E u \in Users, s \in StartDates, e \in ServedEndDates : cycle_create(u, s, e)

CompleteCycle == call = NoCall /\ CalculateCycleLength

Forecast == call = NoCall /\ ForecastView

DirectCycleLength == last = NoRequest /\ PredictCycleLength

DirectWithHistory == last = NoRequest /\ PredictWithHistory

ForecastNext ==
    \/ TrainServed
    \/ CycleCreate
    \/ CompleteCycle
    \/ Forecast
    \/ DirectCycleLength
    \/ DirectWithHistory

SpecForecast == Init /\ [][ForecastNext]_vars

\* Daily logs: two users log cycles and daily logs, edit and delete them,
\* and ask for forecasts.  A request may name any stored primary key; one
\* that names a record of another user is answered 404.
Tenants == {1, 2}

LogDates == {Epoch, Epoch + 1}

\* Rows of a valid DailyLogForm.
LogRows ==
    [date : LogDates, flow_intensity : {"heavy"}, cramps : BOOLEAN,
     headache : {FALSE}, mood_swings : {FALSE}, fatigue : {FALSE},
     bloating : {FALSE}]

LogCycleCreate ==
    /\ next_pk <= MaxStorePk
    /\ \E u \in Tenants : cycle_create(u, Epoch, NULL)

LogCycleDelete == \E u \in Tenants, pk \in DOMAIN cycles : cycle_delete(u, pk)

DailyLogCreate ==
    /\ next_log_pk <= MaxLogPk
    /\ \E u \in Tenants, pk \in DOMAIN cycles, log \in LogRows :
          daily_log_create(u, pk, log)

DailyLogUpdate ==
    \E u \in Tenants, pk \in DOMAIN cycles, l \in DOMAIN daily_logs, log \in LogRows :
        daily_log_update(u, pk, l, log)

DailyLogDelete ==
    \E u \in Tenants, pk \in DOMAIN cycles, l \in DOMAIN daily_logs :
        daily_log_delete(u, pk, l)

LogsNext ==
    \/ LogCycleCreate
    \/ LogCycleDelete
    \/ DailyLogCreate
    \/ DailyLogUpdate
    \/ DailyLogDelete

SpecLogs == Init /\ [][LogsNext]_vars

\* Two users side by side.  The store holds a cycle of user 2, the latest
\* of the store by its start date, either open or closed after 5 days, and
\* a daily log of it; user 1 makes every request that writes the store,
\* with any stored primary key, and cycles are completed.
TenantEndDates == {NULL, Epoch + 5}

InitTenants ==
    /\ \E e \in {NULL, Epoch + 14} :
          cycles = <<[user |-> 2, start_date |-> Epoch + 9, end_date |-> e,
                      cycle_length |-> IF e = NULL THEN NULL ELSE 5]>>
    /\ next_pk = 2
    /\ daily_logs = <<[cycle |-> 1, date |-> Epoch, flow_intensity |-> "heavy",
                       cramps |-> TRUE, headache |-> FALSE, mood_swings |-> FALSE,
                       fatigue |-> FALSE, bloating |-> FALSE]>>
    /\ next_log_pk = 2
    /\ artifact = NoArtifact
    /\ call = NoCall
    /\ last = NoRequest

TenantCycleCreate ==
    /\ next_pk <= MaxStorePk
    /\ \E u \in Users, e \in TenantEndDates : cycle_create(u, Epoch, e)

TenantCycleUpdate ==
    \E u \in Users, pk \in DOMAIN cycles, e \in TenantEndDates :
        cycle_update(u, pk, Epoch, e)

TenantHome == \E u \in Users : home(u, RecordedToday)

TenantAnalytics == \E u \in Users : analytics_view(u, RecordedToday)

TenantRows == {row \in LogRows : ~row.cramps}

TenantLogCreate ==
    /\ next_log_pk <= MaxLogPk
    /\ \E u \in Users, pk \in DOMAIN cycles, log \in TenantRows :
          daily_log_create(u, pk, log)

TenantLogUpdate ==
    \E u \in Users, pk \in DOMAIN cycles, l \in DOMAIN daily_logs, log \in TenantRows :
        daily_log_update(u, pk, l, log)

TenantLogDelete ==
    \E u \in Users, pk \in DOMAIN cycles, l \in DOMAIN daily_logs :
        daily_log_delete(u, pk, l)

TenantsNext ==
    \/ TenantCycleCreate
    \/ CalculateCycleLength
    \/ TenantCycleUpdate
    \/ CycleDelete
    \/ TenantHome
    \/ TenantAnalytics
    \/ TenantLogCreate
    \/ TenantLogUpdate
    \/ TenantLogDelete

SpecTenants == InitTenants /\ [][TenantsNext]_vars

\* Reads of a recorded store: the store holds two cycles of user 1 (a
\* completed one, and one closed by its form with no length) with n daily
\* logs on n consecutive days, spread over both cycles, and a completed
\* cycle of user 2 with one later log that has every symptom.  All logs of user 1
\* have a headache and heavy flow; cramps are logged on the c most recent
\* days, or on the c oldest ones.
RecordedStore(n, c, newest) ==
    [l \in 1..(n + 1) |->
        IF l = n + 1
        THEN [cycle |-> 3, date |-> Epoch + 100, flow_intensity |-> "none",
              cramps |-> TRUE, headache |-> TRUE, mood_swings |-> TRUE,
              fatigue |-> TRUE, bloating |-> TRUE]
        ELSE [cycle |-> 1 + (l % 2), date |-> Epoch + l, flow_intensity |-> "heavy",
              cramps |-> IF newest THEN l > n - c ELSE l <= c,
              headache |-> TRUE, mood_swings |-> FALSE,
              fatigue |-> FALSE, bloating |-> FALSE]]

RecordedCycles ==
    <<[user |-> 1, start_date |-> Epoch - 27, end_date |-> Epoch,
       cycle_length |-> 27],
      [user |-> 1, start_date |-> Epoch, end_date |-> Epoch + 5,
       cycle_length |-> NULL],
      [user |-> 2, start_date |-> Epoch - 30, end_date |-> Epoch,
       cycle_length |-> 30]>>

\* The artifact of a model trained on two of the feature columns.
TrainedArtifact ==
    [exists |-> TRUE, complete |-> TRUE, model |-> 2900,
     feature_names |-> <<"age", "cramps">>, version |-> "1.0"]

InitRecorded ==
    /\ cycles = RecordedCycles
    /\ next_pk = 4
    /\ \E n \in 0..MaxRecorded, newest \in BOOLEAN :
          \E c \in 0..n :
              /\ daily_logs = RecordedStore(n, c, newest)
              /\ next_log_pk = n + 2
    /\ artifact \in {NoArtifact, TrainedArtifact}
    /\ call = NoCall
    /\ last = NoRequest

CollectCycleData ==
    call = NoCall /\ \E u \in Tenants : call_get_user_cycle_data(u)

RecordedForecast == \E u \in Tenants : forecast_view(u, RecordedToday)

SymptomsNext == CollectCycleData \/ RecordedForecast

SpecSymptoms == InitRecorded /\ [][SymptomsNext]_vars

(***************************************************************************)
(* Claims.                                                                 *)
(***************************************************************************)
Abs(x) == IF x >= 0 THEN x ELSE -x

\* C4: predict_cycle_length returns a length in [21, 40] for every raw model
\* output: an output below 21 gives 21, one above 40 gives 40, and one
\* inside the range is returned rounded to one decimal place (the returned
\* tenths are within half a tenth of the output).
C4_LengthClamped ==
    (call.fn = "predict_cycle_length" /\ call.out.exc = "") =>
        LET raw == call.art.model
            len10 == call.out.length
        IN  /\ len10 >= 210 /\ len10 <= 400
            /\ raw < 2100 => len10 = 210
            /\ raw > 4000 => len10 = 400
            /\ (raw >= 2100 /\ raw <= 4000) => Abs(10 * len10 - raw) <= 5

\* C4 witness: a regressor output above 40 came back as 40.0.
C4_Witness ==
    /\ call.fn = "predict_cycle_length"
    /\ call.out.exc = ""
    /\ call.art.model > 4000
    /\ call.out.length = 400

\* C5: with no model artifact, predict_with_history on an empty history does
\* not raise and returns length 28.0 with confidence 0.3, whatever the age
\* and the symptoms argument (None included).
C5_EmptyHistoryFallback ==
    (/\ call.fn = "predict_with_history"
     /\ ~call.art.exists
     /\ call.cycle_lengths = <<>>) =>
        /\ call.out.exc = ""
        /\ call.out.length = 280
        /\ call.out.conf = Rat(3, 10)

\* C5 witness: such a call with symptoms=None and an age other than 25.
C5_Witness ==
    /\ call.fn = "predict_with_history"
    /\ ~call.art.exists
    /\ call.cycle_lengths = <<>>
    /\ call.symptoms.none
    /\ call.user_age = Num(40)
    /\ call.out = Return(280, Rat(3, 10), <<>>)

\* C6 as stated: with no model artifact and a non-empty history,
\* predict_with_history returns the arithmetic mean of the lengths (to the
\* two decimals of the example) with confidence 0.5; for [28, 30, 27] it
\* returns 28.33.
C6_Original ==
    (/\ call.fn = "predict_with_history"
     /\ ~call.art.exists
     /\ Len(call.cycle_lengths) > 0) =>
        /\ call.out.exc = ""
        /\ call.out.conf = Rat(1, 2)
        /\ 10 * call.out.length =
              RoundHalfEven(100 * Sum(call.cycle_lengths), Len(call.cycle_lengths))
        /\ call.cycle_lengths = <<28, 30, 27>> => 10 * call.out.length = 2833

\* C6 amended: with no model artifact and a non-empty history,
\* predict_with_history returns the arithmetic mean of the lengths rounded
\* to one decimal place (within 0.05 of the mean) with confidence 0.5; for
\* [28, 30, 27] it returns 28.3.
C6_MeanToOneDecimal ==
    (/\ call.fn = "predict_with_history"
     /\ ~call.art.exists
     /\ Len(call.cycle_lengths) > 0) =>
        LET n == Len(call.cycle_lengths)
        IN  /\ call.out.exc = ""
            /\ call.out.conf = Rat(1, 2)
            /\ 2 * Abs(call.out.length * n - 10 * Sum(call.cycle_lengths)) <= n
            /\ call.cycle_lengths = <<28, 30, 27>> => call.out.length = 283

\* C6 witness: the history [28, 30, 27] with no artifact gave (28.3, 0.5).
C6_Witness ==
    /\ call.fn = "predict_with_history"
    /\ ~call.art.exists
    /\ call.cycle_lengths = <<28, 30, 27>>
    /\ call.out.length = 283
    /\ call.out.conf = Rat(1, 2)

\* The cycle lengths get_user_cycle_data collects for a user: those of the
\* user's cycles whose cycle_length is neither NULL nor 0.
CompletedCount(user) ==
    Cardinality({pk \in DOMAIN cycles :
                    /\ cycles[pk].user = user
                    /\ cycles[pk].cycle_length # NULL
                    /\ cycles[pk].cycle_length # 0})

\* The start date of the user's most recent cycle.
LatestStart(user) ==
    CHOOSE d \in {cycles[pk].start_date : pk \in {q \in DOMAIN cycles : cycles[q].user = user}} :
        \A pk \in DOMAIN cycles : cycles[pk].user = user => cycles[pk].start_date <= d

\* A forecast_view request has just been answered (or has failed).
Forecasted == last.op = "forecast_view"

LengthMatchesDates(c) ==
    c.cycle_length # NULL =>
        /\ c.end_date # NULL
        /\ c.cycle_length = c.end_date - c.start_date
        /\ c.cycle_length > 0

AllLengthsMatchDates == \A pk \in DOMAIN cycles : LengthMatchesDates(cycles[pk])

\* C2 as stated: cycle_create, cycle_update, cycle_delete, home and
\* analytics_view keep every stored cycle_length equal to end_date -
\* start_date in days and positive: from a store where this holds, each of
\* these requests leads to a store where it holds.
C2_LengthInvariantKept ==
    [][(/\ AllLengthsMatchDates
        /\ last'.op \in {"cycle_create", "cycle_update", "cycle_delete",
                         "home", "analytics_view"})
          => AllLengthsMatchDates']_vars

\* C3 as stated: after a cycle_create that found the user's most recent
\* cycle open, that cycle ends the day before the new cycle starts and its
\* cycle_length is recomputed to end_date - start_date.
C3_AutoCloseRecomputes ==
    (last.op = "cycle_create" /\ last.prev # 0) =>
        LET previous == cycles[last.prev]
        IN  /\ previous.end_date = cycles[last.pk].start_date - 1
            /\ previous.cycle_length = previous.end_date - previous.start_date

\* C7: a forecast for a user with no completed cycle has
\* has_enough_data=False, predicted_length, predicted_date and days_until
\* None, confidence 0 and a message, and is made without calling the
\* Predictor.
C7_NotEnoughData ==
    (Forecasted /\ CompletedCount(last.user) = 0) =>
        /\ last.fc.exc = ""
        /\ last.fc.has_enough_data = FALSE
        /\ last.fc.predicted_length = NULL
        /\ last.fc.predicted_date = NULL
        /\ last.fc.days_until = NULL
        /\ last.fc.confidence = 0
        /\ last.fc.message # ""
        /\ ~last.fc.invoked
        /\ last.fc.pwh = NotCalled

\* C7 witness: a user with a logged, uncompleted cycle and a trained model
\* was told there is not enough data.
C7_Witness ==
    /\ Forecasted
    /\ artifact.exists
    /\ \E pk \in DOMAIN cycles : cycles[pk].user = last.user
    /\ CompletedCount(last.user) = 0
    /\ ~last.fc.has_enough_data
    /\ last.fc.confidence = 0

\* C8: the reported confidence is the Predictor's confidence times 0.7,
\* rounded to two decimals, when fewer than 3 completed cycle lengths were
\* collected, and the Predictor's confidence itself, rounded to two
\* decimals, when 3 or more were.
C8_DampeningIffSparse ==
    (Forecasted /\ last.fc.has_enough_data) =>
        LET n == CompletedCount(last.user)
            c == last.fc.pwh.conf
            reported == last.fc.confidence
        IN  /\ last.fc.cycle_count = n
            /\ n < 3 => 2 * Abs(10 * reported * c.den - 700 * c.num) <= 10 * c.den
            /\ n >= 3 => 2 * Abs(reported * c.den - 100 * c.num) <= c.den

\* C8 witness: with 3 completed cycles a Predictor confidence of 1/2 was
\* reported as 0.5.
C8_Witness ==
    /\ Forecasted
    /\ last.fc.has_enough_data
    /\ CompletedCount(last.user) = 3
    /\ last.fc.pwh.conf = Rat(1, 2)
    /\ last.fc.confidence = 50

\* C9: every confidence returned by predict_cycle_length and by
\* predict_with_history, and every confidence in a result of
\* get_prediction_for_user, lies in [0, 1].
C9_ConfidenceInUnitInterval ==
    /\ (call.fn # "" /\ call.out.exc = "") =>
          /\ call.out.conf.den > 0
          /\ 0 <= call.out.conf.num
          /\ call.out.conf.num <= call.out.conf.den
    /\ (Forecasted /\ last.fc.exc = "") =>
          /\ 0 <= last.fc.confidence
          /\ last.fc.confidence <= 100
          /\ last.fc.invoked =>
                /\ last.fc.pwh.conf.den > 0
                /\ 0 <= last.fc.pwh.conf.num
                /\ last.fc.pwh.conf.num <= last.fc.pwh.conf.den

\* C9 witness: a forecast reported the confidence 1.0 of a model all of
\* whose features were supplied.
C9_Witness ==
    /\ Forecasted
    /\ last.fc.has_enough_data
    /\ artifact.exists
    /\ last.fc.pwh.conf = Rat(1, 1)
    /\ last.fc.confidence = 100

C11_FeatureVector ==
    call.fn = "predict_with_history" =>
        LET h == call.cycle_lengths
            n == Len(h)
            f == call.features_dict
            sym == IF call.symptoms.none THEN <<>> ELSE call.symptoms.d
            lag1 == f["prev_cycle_length_1"]
            lag2 == f["prev_cycle_length_2"]
            lag3 == f["prev_cycle_length_3"]
            mean == f["rolling_mean_3"]
            std == f["rolling_std_3"]
            passed_none(k) ==
                \/ k = "age" /\ call.user_age.none
                \/ /\ k \in {"flow_encoded", "period_length"}
                   /\ k \in DOMAIN sym
                   /\ sym[k].none
        IN  /\ DOMAIN f = FeatureKeys
            /\ Cardinality(DOMAIN f) = 13
            /\ \A k \in DOMAIN f : f[k].none => passed_none(k)
            /\ \A k \in SymptomNames : f[k] \in {Num(0), Num(1)}
            /\ mean.den > 0 /\ ~mean.root
            /\ n = 0 => /\ lag1 = Num(28) /\ lag2 = Num(28) /\ lag3 = Num(28)
                        /\ mean = Num(28) /\ std = Num(2)
            /\ n = 1 => /\ lag1 = Num(h[1]) /\ lag2 = Num(h[1]) /\ lag3 = Num(h[1])
                        /\ mean = Num(h[1]) /\ std = Num(2)
            /\ n = 2 => /\ lag1 = Num(h[2]) /\ lag2 = Num(h[1]) /\ lag3 = lag1
                        /\ 2 * mean.num = (h[1] + h[2]) * mean.den
            /\ n >= 3 => /\ lag1 = Num(h[n]) /\ lag2 = Num(h[n - 1])
                         /\ lag3 = Num(h[n - 2])
                         /\ 3 * mean.num = (h[n] + h[n - 1] + h[n - 2]) * mean.den

\* C11 witness: the history [30, 27, 28, 30] gave the lags 30, 28, 27 and the
\* rolling mean 85/3 of its last three lengths.
C11_Witness ==
    /\ call.fn = "predict_with_history"
    /\ call.cycle_lengths = <<30, 27, 28, 30>>
    /\ call.features_dict["prev_cycle_length_1"] = Num(30)
    /\ call.features_dict["prev_cycle_length_2"] = Num(28)
    /\ call.features_dict["prev_cycle_length_3"] = Num(27)
    /\ call.features_dict["rolling_mean_3"] = Frac(85, 3)
    /\ \A k \in FeatureKeys : ~call.features_dict[k].none

\* C12 as stated: a home request resets end_date and cycle_length of the
\* user's latest cycle (by start date) to null when that cycle has an end
\* date and a cycle_length below 7, and leaves that cycle unchanged
\* otherwise; every other cycle is left unchanged.  (Of several cycles with
\* the latest start date, any one may be the latest.)
C12_ReopenShortLatest ==
    [][last'.op = "home" =>
        LET mine == {pk \in DOMAIN cycles : cycles[pk].user = last'.user}
        IN  /\ DOMAIN cycles' = DOMAIN cycles
            /\ mine = {} => cycles' = cycles
            /\ mine # {} =>
                  \E latest \in mine :
                      /\ \A q \in mine : cycles[q].start_date <= cycles[latest].start_date
                      /\ \A q \in DOMAIN cycles \ {latest} : cycles'[q] = cycles[q]
                      /\ IF /\ cycles[latest].end_date # NULL
                            /\ cycles[latest].cycle_length # NULL
                            /\ cycles[latest].cycle_length < 7
                         THEN cycles'[latest] =
                                  [cycles[latest] EXCEPT !.end_date = NULL,
                                                         !.cycle_length = NULL]
                         ELSE cycles'[latest] = cycles[latest]]_vars

\* C13: after any sequence of daily_log_create, daily_log_update and
\* daily_log_delete requests no two daily logs have the same cycle and the
\* same date; a request that would store a second log for a pair is
\* rejected (IntegrityError) and leaves the table as it was.
C13_OneLogPerCycleDate ==
    /\ \A a, b \in DOMAIN daily_logs :
          (/\ daily_logs[a].cycle = daily_logs[b].cycle
           /\ daily_logs[a].date = daily_logs[b].date) => a = b
    /\ \A l \in DOMAIN daily_logs : daily_logs[l].cycle \in DOMAIN cycles

\* C13 witness: a request met a taken (cycle, date) pair and was rejected,
\* with two logs of one cycle in the table.
C13_Witness ==
    /\ last.op \in {"daily_log_create", "daily_log_update"}
    /\ last.exc = "IntegrityError"
    /\ \E a, b \in DOMAIN daily_logs :
          a # b /\ daily_logs[a].cycle = daily_logs[b].cycle

\* C14: a save_model(model, feature_names) leaves an artifact from which
\* load_model() returns the model and the same feature names in the same
\* order; and a load_model() that finds an artifact returns the names of
\* the artifact as the most recent save left it.
C14_SaveLoadRoundTrip ==
    [][/\ \A m \in RawOutputs, names \in NameLists :
             save_model(m, names) =>
                 load_model(artifact') =
                     [exc |-> "", model |-> m, feature_names |-> names]
       /\ (call'.fn = "load_model" /\ call.fn = "" /\ artifact.exists) =>
             /\ call'.loaded.exc = ""
             /\ call'.loaded.feature_names = artifact.feature_names
             /\ call'.loaded.model = artifact.model]_vars

\* C14 witness: load_model() returned the two names of the last save in the
\* order they were saved in.
C14_Witness ==
    /\ call.fn = "load_model"
    /\ call.loaded.exc = ""
    /\ call.loaded.feature_names = <<"prev_cycle_length_1", "age">>
    /\ artifact.feature_names = <<"prev_cycle_length_1", "age">>

\* C15 as stated: a load_model, predict_cycle_length or
\* predict_with_history that runs while a save_model is under way finds no
\* artifact, or a complete one (the previous or the new); it never reads a
\* partially written file and never fails on one.
C15_SaveAtomic ==
    call.fn # "" =>
        /\ call.art.exists => call.art.complete
        /\ call.loaded.exc \in {"not called", "", "FileNotFoundError"}
        /\ call.out.exc \in {"not called", "", "FileNotFoundError", "ZeroDivisionError"}

\* C16: the input predict_cycle_length hands to the model has one entry per
\* persisted feature name, in the persisted order: the dictionary's value
\* for the name, or 0 when the name is missing from the dictionary or
\* mapped to None, so that keys that are not persisted names play no part;
\* and the returned confidence is the number of persisted names with a
\* non-None value in the dictionary divided by the number of persisted names.
C16_InputInPersistedOrder ==
    (/\ call.fn \in {"predict_cycle_length", "predict_with_history"}
     /\ call.art.exists
     /\ call.out.exc = "") =>
        LET names == call.art.feature_names
            d == call.features_dict
            x == call.out.input
            supplied(i) == names[i] \in DOMAIN d /\ ~d[names[i]].none
        IN  /\ Len(names) > 0
            /\ DOMAIN x = 1..Len(names)
            /\ \A i \in 1..Len(names) :
                  x[i] = IF supplied(i) THEN d[names[i]] ELSE Num(0)
            /\ call.out.conf.den > 0
            /\ call.out.conf.num * Len(names) =
                  Cardinality({i \in 1..Len(names) : supplied(i)}) * call.out.conf.den

\* C16 witness: with the names [prev_cycle_length_1, age] persisted, the
\* dictionary {age: 28, extra_column: 28} gave the input [0, 28] and the
\* confidence 1/2.
C16_Witness ==
    /\ call.fn = "predict_cycle_length"
    /\ call.art.feature_names = <<"prev_cycle_length_1", "age">>
    /\ call.features_dict = [k \in {"age", "extra_column"} |-> Num(28)]
    /\ call.out.exc = ""
    /\ call.out.input = <<Num(0), Num(28)>>
    /\ call.out.conf = Rat(1, 2)

\* C17 as stated: for a row of the training table with k earlier rows of the
\* same user (k = 0, 1, 2, 3 or more), the three lags and the rolling mean
\* create_features gives the row are those predict_with_history builds from
\* the history of these k earlier cycle lengths.
C17_TrainingMatchesInference ==
    call.fn = "create_features" =>
        \A i \in 1..Len(call.cycle_lengths) :
            LET prior == SubSeq(call.cycle_lengths, 1, i - 1)
                row == call.features_dict[i]
                f == history_features(prior, Num(25), [none |-> TRUE, d |-> <<>>])
            IN  /\ \A k \in {"prev_cycle_length_1", "prev_cycle_length_2",
                              "prev_cycle_length_3"} :
                      ~row[k].none /\ row[k].num = f[k].num
                /\ ~row["rolling_mean_3"].none
                /\ row["rolling_mean_3"].num * f["rolling_mean_3"].den =
                      f["rolling_mean_3"].num * row["rolling_mean_3"].den

\* C18: each of the five symptom flags get_user_cycle_data returns is set
\* over the window of the (at most 30) most recent daily logs of all the
\* user's cycles: it is true exactly when the logs of the window with the
\* symptom are strictly more than 30% of the window (3 of 10 give false, 4
\* of 10 give true); with no logs the five flags are false and flow_encoded
\* is 2.
C18_SymptomFlags ==
    call.fn = "get_user_cycle_data" =>
        LET mine == {l \in DOMAIN daily_logs :
                        cycles[daily_logs[l].cycle].user = call.user}
            window == {l \in mine :
                          Cardinality({m \in mine :
                              daily_logs[m].date > daily_logs[l].date}) < 30}
            size == Cardinality(window)
            with(k) == Cardinality({l \in window : daily_logs[l][k]})
            flag(k) == call.symptoms.d[k] = Num(1)
        IN  /\ size <= 30
            /\ \A k \in {"cramps", "headache", "mood_swings", "fatigue", "bloating"} :
                  /\ call.symptoms.d[k] \in {Num(0), Num(1)}
                  /\ flag(k) <=> 10 * with(k) > 3 * size
                  /\ (size = 10 /\ with(k) = 3) => ~flag(k)
                  /\ (size = 10 /\ with(k) = 4) => flag(k)
                  /\ mine = {} => ~flag(k)
            /\ mine = {} => call.symptoms.d["flow_encoded"] = Num(2)

\* C18 witness: of the 31 logs of the user, the 30 most recent hold 9 with
\* cramps and the oldest holds one more; the flag is false.
C18_Witness ==
    /\ call.fn = "get_user_cycle_data"
    /\ call.user = 1
    /\ Cardinality({l \in DOMAIN daily_logs :
                        cycles[daily_logs[l].cycle].user = 1}) = 31
    /\ Cardinality({l \in DOMAIN daily_logs :
                        /\ cycles[daily_logs[l].cycle].user = 1
                        /\ daily_logs[l].cramps}) = 10
    /\ daily_logs[1].cramps
    /\ call.symptoms.d["cramps"] = Num(0)
    /\ call.symptoms.d["headache"] = Num(1)

\* C19: a call of get_prediction_for_user (a forecast request) or of
\* get_user_cycle_data creates, changes and deletes no Cycle and no DailyLog
\* and leaves the model artifact as it is; so the forecasts every user can
\* be given are the same after the call as before it, in whatever order the
\* users' calls are made.
C19_ForecastReadsOnly ==
    [][((last'.op = "forecast_view" /\ last' # last)
        \/ (call'.fn = "get_user_cycle_data" /\ call' # call)) =>
          /\ cycles' = cycles
          /\ daily_logs' = daily_logs
          /\ next_pk' = next_pk
          /\ next_log_pk' = next_log_pk
          /\ artifact' = artifact
          /\ \A u \in Tenants :
                get_prediction_for_user(u, RecordedToday, cycles', daily_logs', artifact')
                    = get_prediction_for_user(u, RecordedToday, cycles, daily_logs, artifact)]_vars

\* C19 witness: user 2 was given a forecast after user 1 was given one, over
\* a store with daily logs, its cycles and logs being those recorded.
C19_Witness ==
    /\ Forecasted
    /\ last.user = 2
    /\ last.fc.has_enough_data
    /\ last.fc.cycle_count = 1
    /\ call.fn = "get_user_cycle_data"
    /\ call.user = 1
    /\ cycles = RecordedCycles
    /\ Cardinality(DOMAIN daily_logs) = 11
    /\ artifact = TrainedArtifact

\* C20: a request of a user A to home, cycle_create, cycle_update,
\* cycle_delete, analytics_view, daily_log_create, daily_log_update or
\* daily_log_delete, whatever primary keys it names, leaves the cycles and
\* the daily logs of every other user B as they were (none created, changed,
\* reopened, closed or deleted), and with them the forecast B is given.
C20_TenantIsolation ==
    [][\A a \in Tenants :
          (/\ last'.user = a
           /\ last'.op \in {"home", "cycle_create", "cycle_update", "cycle_delete",
                            "analytics_view", "daily_log_create",
                            "daily_log_update", "daily_log_delete"}) =>
              \A b \in Tenants \ {a} :
                  LET theirs == {pk \in DOMAIN cycles : cycles[pk].user = b}
                      logged == {l \in DOMAIN daily_logs : daily_logs[l].cycle \in theirs}
                  IN  /\ {pk \in DOMAIN cycles' : cycles'[pk].user = b} = theirs
                      /\ \A pk \in theirs : cycles'[pk] = cycles[pk]
                      /\ {l \in DOMAIN daily_logs' : daily_logs'[l].cycle \in theirs}
                            = logged
                      /\ \A l \in logged : daily_logs'[l] = daily_logs[l]
                      /\ get_prediction_for_user(b, RecordedToday, cycles',
                                                 daily_logs', artifact')
                            = get_prediction_for_user(b, RecordedToday, cycles,
                                                      daily_logs, artifact)]_vars

\* C20 witness: user 1 has deleted a cycle of theirs that had a daily log,
\* and the cycle and the daily log of user 2 are as they were.
C20_Witness ==
    /\ last.op = "cycle_delete"
    /\ last.user = 1
    /\ next_log_pk > 2
    /\ \A l \in DOMAIN daily_logs : daily_logs[l].cycle = 1
    /\ 1 \in DOMAIN cycles
    /\ cycles[1].user = 2
    /\ cycles[1].end_date = NULL
    /\ 1 \in DOMAIN daily_logs

\* The store holds its first two cycles, both of the user of the last
\* request and both logged through cycle_create: the first with no end date,
\* the second starting at least 8 days after the first, which it found open
\* and closed.
SecondCycleLogged ==
    /\ last.op = "cycle_create"
    /\ last.prev = 1
    /\ last.pk = 2
    /\ DOMAIN cycles = {1, 2}
    /\ cycles[2].user = cycles[1].user
    /\ cycles[2].start_date >= cycles[1].start_date + 8

\* C21 as stated: once a user who had no cycle has created a cycle with no
\* end date and then a second cycle starting at least 8 days later, the
\* first cycle has a non-null cycle_length, and the forecast requested next
\* has has_enough_data=True and cycle_count >= 1.
C21_SecondCycleCompletesFirst ==
    [][(SecondCycleLogged /\ last'.op = "forecast_view" /\ last'.user = last.user) =>
          /\ cycles[last.prev].cycle_length # NULL
          /\ last'.fc.has_enough_data
          /\ last'.fc.cycle_count >= 1]_vars

====
